---- MODULE Spec2Model ----
(***************************************************************************)
(* Model of the option-sweep helper of qiskit-metal                        *)
(* (analyses/sweep_options/sweeping.py) together with the parts of the     *)
(* Q3D renderer it drives (renderers/renderer_ansys/q3d_renderer.py), of   *)
(* the renderer's setup methods called on their own, of MetalGUI's         *)
(* set_design (_gui/main_window.py) and of the constructor of              *)
(* Metal_cpw_connect (objects/interconnects/Metal_cpw_connect.py).         *)
(*                                                                         *)
(* Python strings that the code parses or searches (option names, option   *)
(* values) are sequences of one-character strings.  Python objects that    *)
(* the code holds by reference (the nested option dicts) live in a heap of *)
(* numbered nodes, so that a_value is a reference as it is in the code.    *)
(***************************************************************************)
EXTENDS Integers, Sequences, FiniteSets, TLC

VARIABLES
    heap,               \* the option trees of all components (node -> object)
    project,            \* Ansys: a project is open in the app
    designs,            \* Ansys: names of the designs of the project
    active,             \* pinfo.design: name of the connected design, or NoDesign
    objects,            \* Ansys: design name -> objects drawn in that design
    setups,             \* Ansys: design name -> solution setups of that design
    pinfo_setup,        \* pinfo.setup / pinfo.setup_name: name of the active setup
    solved,             \* Ansys: what the last analyze() solved
    nAnalyze,           \* Ansys: number of analyses run so far
    nRender,            \* Ansys: number of objects drawn so far
    pinfo,              \* the renderer holds a connection (pinfo) to Ansys
    qgeometry,          \* design.qgeometry: the options the geometry was built from
    pc,                 \* position in the method being executed
    kind,               \* which method runs: "q3d" or "hfss"
    qcomp_name,         \* argument
    option_name,        \* argument
    option_sweep,       \* argument
    setup_args,         \* argument: None or a Dict, which the method writes to
    args_given,         \* setup_args as the caller passed it
    leave_last_design,  \* argument
    option_path,        \* local
    a_value,            \* local: reference to an options object
    index,              \* local: loop counter of the sweep (1-based)
    all_sweep,          \* local / returned dict
    status,             \* returned status code, NoStatus before the return
    raised,             \* exception that left the method, "none" otherwise
    log,                \* the calls made so far on the design and the renderer
    q3d_options,        \* QQ3DRenderer.q3d_options
    pinfo_setup_name,   \* pinfo.setup_name, where it is told apart from pinfo.setup
    solution_type,      \* pinfo.design.solution_type
    created,            \* keyword arguments of the last create_q3d_setup call
    called,             \* the method called last, with its arguments
    gui_design,         \* MetalGUI.design
    gui_enabled,        \* design-dependent widget -> isEnabled()
    plot_win_design,    \* the design given to MetalGUI.plot_win
    variables_design,   \* the design given to MetalGUI.variables_window
    renderer_guis,      \* main_window.gds_gui, hfss_gui, q3d_gui
    connectors,         \* design.connectors: the names registered
    cpw_made            \* Metal_cpw_connect: make() has run

vars == <<heap, project, designs, active, objects, setups, pinfo_setup, solved,
          nAnalyze, nRender, pinfo, qgeometry, pc, kind, qcomp_name, option_name, option_sweep, setup_args,
          args_given, leave_last_design, option_path, a_value, index, all_sweep, status,
          raised, log, q3d_options, pinfo_setup_name, solution_type, created,
          called, gui_design, gui_enabled, plot_win_design, variables_design,
          renderer_guis, connectors, cpw_made>>

ansysVars == <<project, designs, active, objects, setups, pinfo_setup, solved,
               nAnalyze, nRender, pinfo>>
localVars == <<option_path, a_value, index, all_sweep>>
argVars == <<kind, qcomp_name, option_name, option_sweep, setup_args, args_given,
             leave_last_design>>
rendererVars == <<q3d_options, pinfo_setup_name, solution_type, created, called>>
guiVars == <<gui_design, gui_enabled, plot_win_design, variables_design,
            renderer_guis>>
cpwVars == <<connectors, cpw_made>>
sideVars == <<rendererVars, guiVars, cpwVars>>

----------------------------------------------------------------------------
(* Bounds of the model.                                                    *)

MaxNameLen == 5
MaxSweep == 2
MaxArgs == 2

----------------------------------------------------------------------------
(* Python strings as sequences of characters.                              *)

Chars == {"a", "b", "."}

StringsUpTo(n) == UNION {[1..k -> Chars] : k \in 0..n}

\* str.split('.'): the segments between the dots, empty segments included.
Split(s) ==
    LET F[i \in 0..Len(s)] ==
            IF i = 0 THEN << <<>> >>
            ELSE IF s[i] = "." THEN Append(F[i-1], <<>>)
            ELSE [F[i-1] EXCEPT ![Len(F[i-1])] = Append(@, s[i])]
    IN F[Len(s)]

\* Python's `x in s` for two strings: x occurs in s as a substring.
IsSubstring(x, s) ==
    \E i \in 0..(Len(s) - Len(x)) : \A j \in 1..Len(x) : s[i + j] = x[j]

----------------------------------------------------------------------------
(* The design: components and their nested option dicts.                   *)

NullNode == 0
NoPath == <<>>

DictNode(kids) == [kind |-> "dict", kids |-> kids, val |-> <<>>]
StrNode(s) == [kind |-> "str", kids |-> {}, val |-> s]
IntNode == [kind |-> "int", kids |-> {}, val |-> <<>>]
\* A node no object occupies yet.
FreeNode == [kind |-> "free", kids |-> {}, val |-> <<>>]

\* design.components: component name -> the node of its options dict.
Components == [Q1 |-> 1, Q2 |-> 7]

\* Q1.options = {a: {a: {a: 'a'}, b: 7}, b: 'ab'}    Q2.options = {b: 7}
\* and one node to spare for a key that an assignment creates.
InitHeap ==
    [n \in 1..9 |->
        CASE n = 1 -> DictNode({<< <<"a">>, 2 >>, << <<"b">>, 3 >>})
          [] n = 2 -> DictNode({<< <<"a">>, 4 >>, << <<"b">>, 5 >>})
          [] n = 3 -> StrNode(<<"a", "b">>)
          [] n = 4 -> DictNode({<< <<"a">>, 6 >>})
          [] n = 5 -> IntNode
          [] n = 6 -> StrNode(<<"a">>)
          [] n = 7 -> DictNode({<< <<"b">>, 8 >>})
          [] n = 8 -> IntNode
          [] n = 9 -> FreeNode]

Keys(h, n) == {p[1] : p \in h[n].kids}
Child(h, n, k) == (CHOOSE p \in h[n].kids : p[1] = k)[2]

\* Python's `name in obj`: key membership for a dict, substring for a str,
\* TypeError for an int.
Contains(h, n, name) ==
    CASE h[n].kind = "dict" -> IF name \in Keys(h, n) THEN "yes" ELSE "no"
      [] h[n].kind = "str" -> IF IsSubstring(name, h[n].val) THEN "yes" ELSE "no"
      [] OTHER -> "TypeError"

\* Sweeping.option_value: a_dict[search]; a str indexed by a str raises.
option_value(h, n, search) ==
    IF h[n].kind = "dict" THEN [node |-> Child(h, n, search), raised |-> "none"]
    ELSE [node |-> NullNode, raised |-> "TypeError"]

NoStatus == -1

CheckResult(path, node, st, exc) ==
    [option_path |-> path, a_value |-> node, status |-> st, raised |-> exc]

\* The loop of error_check_sweep_input over option_path[:-1], from segment i.
RECURSIVE WalkPath(_, _, _, _)
WalkPath(h, n, path, i) ==
    IF i > Len(path) - 1 THEN CheckResult(path, n, 0, "none")
    ELSE LET c == Contains(h, n, path[i]) IN
         CASE c = "TypeError" -> CheckResult(path, n, NoStatus, "TypeError")
           [] c = "no" -> CheckResult(path, n, 3, "none")
           [] OTHER ->
                LET v == option_value(h, n, path[i]) IN
                IF v.raised # "none" THEN CheckResult(path, n, NoStatus, v.raised)
                ELSE WalkPath(h, v.node, path, i + 1)

error_check_sweep_input(h, qcomp, name, sweep) ==
    IF Len(sweep) = 0 THEN CheckResult(NoPath, NullNode, 4, "none")
    ELSE IF name = <<>> THEN CheckResult(NoPath, NullNode, 2, "none")
    ELSE IF qcomp \notin DOMAIN Components
         THEN CheckResult(Split(name), NullNode, 1, "none")
    ELSE WalkPath(h, Components[qcomp], Split(name), 1)

----------------------------------------------------------------------------
(* Python values that appear in setup_args and in renderer options.        *)

PyNone == [ty |-> "none", v |-> "None"]
PyInt(t) == [ty |-> "int", v |-> t]
PyFloat(t) == [ty |-> "float", v |-> t]
PyBool(t) == [ty |-> "bool", v |-> t]
PyStr(t) == [ty |-> "str", v |-> t]

\* Mutant of IsInstance: an int passes for a float as well.
IsInstanceNumeric(value, t) ==
    \/ value.ty = t
    \/ t = "int" /\ value.ty = "bool"
    \/ t = "float" /\ value.ty = "int"

\* isinstance(value, t): bool is a subclass of int.
IsInstance(value, t) ==
    \/ value.ty = t
    \/ t = "int" /\ value.ty = "bool"

\* Truth value of a Python object, as `if not x` tests it.
Truthy(value) ==
    CASE value.ty = "none" -> FALSE
      [] value.ty = "bool" -> value.v = "True"
      [] value.ty = "int" -> value.v # "0"
      [] value.ty = "float" -> value.v # "0.0"
      [] OTHER -> value.v # ""

\* setup_args: None, or an addict Dict, kept as its items in insertion order.
NoneArgs == [none |-> TRUE, items |-> <<>>]
DictArgs(items) == [none |-> FALSE, items |-> items]

HasKey(items, key) == \E i \in 1..Len(items) : items[i][1] = key
GetKey(items, key) == items[CHOOSE i \in 1..Len(items) : items[i][1] = key][2]

\* setup_args.name = value: rebinds the key in place, or appends it.
SetKey(items, key, value) ==
    IF HasKey(items, key)
    THEN [i \in 1..Len(items) |->
            IF items[i][1] = key THEN <<key, value>> ELSE items[i]]
    ELSE Append(items, <<key, value>>)

Q3dSetupName == PyStr("Sweep_q3d_setup")
EmSetupName == PyStr("Sweep_em_setup")

SolutionOrders == {"High", "Normal", "Higher", "Highest"}

\* Mutant of Q3dCheckKey: a key that is not expected passes.
Q3dCheckAnyKey(key, value) ==
    IF key \in {"freq_ghz", "percent_error"} /\ value.ty \notin {"float", "none"}
    THEN 1 ELSE 0

\* One pass of the body of the loop of prep_q3d_setup:
\* 0 stands for `continue`, 1 and 2 are the values returned.
Q3dCheckKey(key, value) ==
    CASE key = "name" -> 0
      [] key = "freq_ghz" ->
            IF IsInstance(value, "float") \/ value = PyNone THEN 0 ELSE 1
      [] key = "max_passes" ->
            IF IsInstance(value, "int") \/ value = PyNone THEN 0 ELSE 1
      [] key = "min_passes" ->
            IF IsInstance(value, "int") \/ value = PyNone THEN 0 ELSE 1
      [] key = "percent_error" ->
            IF IsInstance(value, "float") \/ value = PyNone THEN 0 ELSE 1
      [] key = "save_fields" ->
            IF IsInstance(value, "bool") \/ value = PyNone THEN 0 ELSE 1
      [] key = "enabled" ->
            IF IsInstance(value, "bool") \/ value = PyNone THEN 0 ELSE 1
      [] key = "min_converged_passes" ->
            IF IsInstance(value, "int") \/ value = PyNone THEN 0 ELSE 1
      [] key = "percent_refinement" ->
            IF IsInstance(value, "int") \/ value = PyNone THEN 0 ELSE 1
      [] key = "auto_increase_solution_order" ->
            IF IsInstance(value, "bool") \/ value = PyNone THEN 0 ELSE 1
      [] key = "solution_order" ->
            IF (IsInstance(value, "str") /\ value.v \in SolutionOrders)
                \/ value = PyNone THEN 0 ELSE 1
      [] key = "solver_type" ->
            IF IsInstance(value, "str") \/ value = PyNone THEN 0 ELSE 1
      [] OTHER -> 2

\* One pass of the body of the loop of prep_eigenmode_setup.
EmCheckKey(key, value) ==
    CASE key = "name" -> 0
      [] key = "min_freq_ghz" ->
            IF IsInstance(value, "int") \/ value = PyNone THEN 0 ELSE 1
      [] key = "n_modes" ->
            IF IsInstance(value, "int") \/ value = PyNone THEN 0 ELSE 1
      [] key = "max_delta_f" ->
            IF IsInstance(value, "float") \/ value = PyNone THEN 0 ELSE 1
      [] key = "max_passes" ->
            IF IsInstance(value, "int") \/ value = PyNone THEN 0 ELSE 1
      [] key = "min_passes" ->
            IF IsInstance(value, "int") \/ value = PyNone THEN 0 ELSE 1
      [] key = "min_converged" ->
            IF IsInstance(value, "int") \/ value = PyNone THEN 0 ELSE 1
      [] key = "basis_order" ->
            IF IsInstance(value, "int") \/ value = PyNone THEN 0 ELSE 1
      [] key = "pct_refinement" ->
            IF IsInstance(value, "int") \/ value = PyNone THEN 0 ELSE 1
      [] OTHER -> 2

CheckKey(k, key, value) ==
    IF k = "q3d" THEN Q3dCheckKey(key, value) ELSE EmCheckKey(key, value)

\* Mutant of ValidateFrom: a key that is not expected is skipped.
RECURSIVE ValidateSkippingUnknown(_, _, _)
ValidateSkippingUnknown(k, items, i) ==
    IF i > Len(items) THEN 0
    ELSE LET r == CheckKey(k, items[i][1], items[i][2]) IN
         IF r = 1 THEN r ELSE ValidateSkippingUnknown(k, items, i + 1)

\* `for key, value in setup_args.items()` from item i on: the first value
\* returned by the body, 0 when the loop runs to its end.
RECURSIVE ValidateFrom(_, _, _)
ValidateFrom(k, items, i) ==
    IF i > Len(items) THEN 0
    ELSE LET r == CheckKey(k, items[i][1], items[i][2]) IN
         IF r # 0 THEN r ELSE ValidateFrom(k, items, i + 1)

----------------------------------------------------------------------------
(* The renderers' setups.                                                  *)

Q3dParams == {"freq_ghz", "name", "save_fields", "enabled", "max_passes",
              "min_passes", "min_converged_passes", "percent_error",
              "percent_refinement", "auto_increase_solution_order",
              "solution_order", "solver_type"}

\* QQ3DRenderer.q3d_options['add_setup']
q3d_add_setup ==
    [freq_ghz |-> "5.0", name |-> "Setup", save_fields |-> "False",
     enabled |-> "True", max_passes |-> "15", min_passes |-> "2",
     min_converged_passes |-> "2", percent_error |-> "0.5",
     percent_refinement |-> "30", auto_increase_solution_order |-> "True",
     solution_order |-> "High", solver_type |-> "Iterative"]

\* toolbox_metal.parsing.is_true on an option string.
is_true(s) == PyBool(IF s \in {"True", "true", "TRUE", "1", "t", "y", "yes"}
                     THEN "True" ELSE "False")

\* The value add_q3d_setup takes from q3d_options for parameter p.
Q3dDefault(p) ==
    CASE p \in {"freq_ghz", "percent_error"} -> PyFloat(q3d_add_setup[p])
      [] p \in {"max_passes", "min_passes", "min_converged_passes",
                "percent_refinement"} -> PyInt(q3d_add_setup[p])
      [] p \in {"save_fields", "enabled", "auto_increase_solution_order"} ->
            is_true(q3d_add_setup[p])
      [] OTHER -> PyStr(q3d_add_setup[p])

\* add_q3d_setup(**items): the arguments handed to create_q3d_setup.
add_q3d_setup(items) ==
    [p \in Q3dParams |->
        IF HasKey(items, p) /\ Truthy(GetKey(items, p))
        THEN GetKey(items, p) ELSE Q3dDefault(p)]

EmParams == {"name", "min_freq_ghz", "n_modes", "max_delta_f", "max_passes",
             "min_passes", "min_converged", "pct_refinement", "basis_order"}

\* QHFSSRenderer.hfss_options['eigenmode_setup']
hfss_eigenmode_setup ==
    [name |-> "Setup", min_freq_ghz |-> "1", n_modes |-> "1",
     max_delta_f |-> "0.5", max_passes |-> "10", min_passes |-> "1",
     min_converged |-> "1", pct_refinement |-> "30", basis_order |-> "-1"]

EmDefault(p) ==
    CASE p = "max_delta_f" -> PyFloat(hfss_eigenmode_setup[p])
      [] p = "name" -> PyStr(hfss_eigenmode_setup[p])
      [] OTHER -> PyInt(hfss_eigenmode_setup[p])

\* add_eigenmode_setup(**items): the arguments of the setup it creates.
add_eigenmode_setup(items) ==
    [p \in EmParams |->
        IF HasKey(items, p) /\ Truthy(GetKey(items, p))
        THEN GetKey(items, p) ELSE EmDefault(p)]

SetupName(k) == IF k = "q3d" THEN Q3dSetupName ELSE EmSetupName
AddSetup(k, items) ==
    IF k = "q3d" THEN add_q3d_setup(items) ELSE add_eigenmode_setup(items)

\* design.delete_setup(name) on the set of setups of a design.
delete_setup(ss, name) == {s \in ss : s["name"] # name}

\* What prep_q3d_setup / prep_eigenmode_setup return and leave behind, given
\* the setups ss of the connected design:
\*   setup_args is None         -> AttributeError at `setup_args.name = ...`
\*   no design behind pinfo     -> AttributeError at `pinfo.design.delete_setup`
prep_setup(k, args, hasDesign, ss) ==
    IF args.none
    THEN [status |-> NoStatus, raised |-> "AttributeError", items |-> <<>>,
          setups |-> ss, added |-> FALSE]
    ELSE LET items == SetKey(args.items, "name", SetupName(k)) IN
         IF ~hasDesign
         THEN [status |-> NoStatus, raised |-> "AttributeError",
               items |-> items, setups |-> ss, added |-> FALSE]
         ELSE LET r == ValidateFrom(k, items, 1)
                  del == delete_setup(ss, SetupName(k))
              IN [status |-> r, raised |-> "none", items |-> items,
                  setups |-> IF r = 0 THEN del \cup {AddSetup(k, items)} ELSE del,
                  added |-> r = 0]

----------------------------------------------------------------------------
(* Ansys as the renderers see it.                                          *)

NoDesign == "none"
NoSetup == "none"

\* Default design_name of the two sweep methods.
DesignName(k) == IF k = "q3d" THEN "Sweep_Capacitance" ELSE "Sweep_Eigenmode"
DesignNames == {DesignName("q3d"), DesignName("hfss")}

NoSolution == [run |-> 0, objs |-> {}]

\* An object of an earlier session, and a setup an earlier sweep left behind.
OldObject == [geom |-> InitHeap, id |-> 0]
OldSetup(k) ==
    AddSetup(k, << <<"name", SetupName(k)>>, <<"max_passes", PyInt("99")>> >>)

\* activate_q3d_design / activate_eigenmode_design: connect to the design of
\* that name, inserting it first when the project does not have it; only a
\* warning when there is no project.
activate_design(hasProject, ds, name) ==
    IF hasProject THEN [designs |-> ds \cup {name}, active |-> name]
    ELSE [designs |-> ds, active |-> NoDesign]

\* clean_active_design: delete every object of the connected design.
clean_active_design(objs, d) ==
    IF d = NoDesign THEN objs ELSE [objs EXCEPT ![d] = {}]

\* render_design: draw the geometry of the selected components.
render_design(objs, d, geom, n) ==
    [objs EXCEPT ![d] = @ \cup {[geom |-> geom, id |-> n]}]

\* Mutant of clean_after: the test of leave_last_design is inverted.
clean_after_inverted(objs, d, i, len, leave) ==
    IF objs[d] # {}
    THEN IF i = len /\ leave THEN clean_active_design(objs, d)
         ELSE IF i # len THEN clean_active_design(objs, d)
         ELSE objs
    ELSE objs

\* The branch that follows the extraction: clean unless this was the last
\* iteration and the caller wants the last design kept.
clean_after(objs, d, i, len, leave) ==
    IF objs[d] # {}
    THEN IF i = len /\ ~leave THEN clean_active_design(objs, d)
         ELSE IF i # len THEN clean_active_design(objs, d)
         ELSE objs
    ELSE objs

\* Mutant of set_option: every key of a_value is bound to the item.
set_option_all(h, n, key, item) ==
    [m \in DOMAIN h |->
        IF \E p \in h[n].kids : p[2] = m THEN StrNode(item) ELSE h[m]]

\* a_value[option_path[-1]] = item: rebinds the key, or creates it.
set_option(h, n, key, item) ==
    IF key \in Keys(h, n)
    THEN [h EXCEPT ![Child(h, n, key)] = StrNode(item)]
    ELSE LET new == CHOOSE m \in DOMAIN h : h[m].kind = "free" IN
         [h EXCEPT ![n].kids = @ \cup {<<key, new>>}, ![new] = StrNode(item)]

\* Mutant of has_last_key: tests the first segment instead of the last.
has_first_key(h, n, path) == path[1] \in Keys(h, n)

\* `option_path[-1] in a_value.keys()`
has_last_key(h, n, path) == path[Len(path)] \in Keys(h, n)

\* Mutant of store: an entry that exists is kept (setdefault).
store_keep_first(all, item, entry) ==
    [v \in DOMAIN all \cup {item} |->
        IF v \in DOMAIN all THEN all[v] ELSE entry]

\* all_sweep[item] = sweep_values
store(all, item, entry) ==
    [v \in DOMAIN all \cup {item} |-> IF v = item THEN entry ELSE all[v]]

Last(path) == path[Len(path)]

----------------------------------------------------------------------------
(* Inputs.                                                                 *)

SweepValues == {<<"a">>, <<"b">>}
SweepLists(n) == UNION {[1..k -> SweepValues] : k \in 0..n}

QcompNames == {"Q1", "Q2", "Q9"}

\* Option names handed to the sweep methods: '', 'a', 'b', 'a.a', 'a.b',
\* 'a.a.a', 'a.a.b', 'b.a', 'b.a.a', '.a'
SweepNames ==
    {<<>>, <<"a">>, <<"b">>, <<"a", ".", "a">>, <<"a", ".", "b">>,
     <<"a", ".", "a", ".", "a">>, <<"a", ".", "a", ".", "b">>,
     <<"b", ".", "a">>, <<"b", ".", "a", ".", "a">>, <<".", "a">>}

SweepSetupArgs ==
    {NoneArgs,
     DictArgs(<<>>),
     DictArgs(<< <<"max_passes", PyInt("7")>> >>),
     DictArgs(<< <<"max_passes", PyFloat("2.5")>> >>),
     DictArgs(<< <<"bogus", PyInt("7")>> >>)}

\* Keys and values tried on prep_q3d_setup and prep_eigenmode_setup.
PrepKeys(k) == (IF k = "q3d" THEN Q3dParams ELSE EmParams) \cup {"bogus"}
PrepValues ==
    {PyNone, PyInt("7"), PyBool("True"), PyFloat("2.5"), PyStr("High"),
     PyStr("Low")}
PrepItems(k, n) ==
    {items \in UNION {[1..m -> PrepKeys(k) \X PrepValues] : m \in 0..n} :
        \A i, j \in 1..Len(items) : i # j => items[i][1] # items[j][1]}

----------------------------------------------------------------------------
(* The state after construction: Sweeping(design) with its renderers, and  *)
(* an Ansys that may or may not have a project, designs and setups.        *)

\* QQ3DRenderer.q3d_options as the class body builds it.
Q3dOptions ==
    [material_type |-> "pec", material_thickness |-> "200nm",
     add_setup |-> q3d_add_setup,
     get_capacitance_matrix |->
        [variation |-> "", solution_kind |-> "AdaptivePass", pass_number |-> "3"]]

NoCall == [op |-> "none", args |-> <<>>]

\* The renderer before any of its methods has been called.
RendererIdle ==
    /\ q3d_options = Q3dOptions
    /\ pinfo_setup_name = NoSetup
    /\ solution_type = "Q3D"
    /\ created = <<>>
    /\ called = NoCall

\* _set_enabled_design_widgets: the widgets of self.ui and of self it lists.
DesignWidgets ==
    {"actionSave", "action_full_refresh", "actionRebuild", "actionDelete_All",
     "dockComponent", "dockLibrary", "dockDesign", "dockConnectors",
     "component_window", "elements_win"}

\* QMainWindowExtension.__init__: gds_gui, hfss_gui and q3d_gui are None.
RendererGuis == {"gds_gui", "hfss_gui", "q3d_gui"}
NoGuiDesign == "None"
NoWidget == [open |-> FALSE, design |-> NoGuiDesign]

\* No main window has been built.
GuiIdle ==
    /\ gui_design = NoGuiDesign
    /\ gui_enabled = [w \in DesignWidgets |-> TRUE]
    /\ plot_win_design = NoGuiDesign
    /\ variables_design = NoGuiDesign
    /\ renderer_guis = [r \in RendererGuis |-> NoWidget]

\* No connector has been registered and no CPW has been built.
CpwIdle ==
    /\ connectors = {}
    /\ cpw_made = FALSE

SideIdle == RendererIdle /\ GuiIdle /\ CpwIdle

InitLocals ==
    /\ pc = "idle"
    /\ qcomp_name = "Q9"
    /\ option_name = <<>>
    /\ option_sweep = <<>>
    /\ setup_args = NoneArgs
    /\ args_given = NoneArgs
    /\ leave_last_design = TRUE
    /\ option_path = NoPath
    /\ a_value = NullNode
    /\ index = 0
    /\ all_sweep = <<>>
    /\ status = NoStatus
    /\ raised = "none"
    /\ log = <<>>

Init ==
    /\ heap = InitHeap
    /\ qgeometry = InitHeap
    /\ project \in BOOLEAN
    /\ \E old \in BOOLEAN :
        /\ designs = IF project /\ old THEN DesignNames ELSE {}
        /\ objects = [d \in DesignNames |-> IF project /\ old THEN {OldObject} ELSE {}]
        /\ setups = [d \in DesignNames |->
                        IF project /\ old
                        THEN {OldSetup(IF d = DesignName("q3d") THEN "q3d" ELSE "hfss")}
                        ELSE {}]
    /\ active = NoDesign
    /\ pinfo = FALSE
    /\ pinfo_setup = NoSetup
    /\ solved = NoSolution
    /\ nAnalyze = 0
    /\ nRender = 0
    /\ kind \in {"q3d", "hfss"}
    /\ InitLocals
    /\ SideIdle

----------------------------------------------------------------------------
(* sweep_one_option_get_capacitance_matrix (kind = "q3d") and              *)
(* sweep_one_option_get_eigenmode_solution_data (kind = "hfss").           *)

Return(st) == /\ status' = st
              /\ pc' = "done"
              /\ raised' = "none"

Raise(exc) == /\ status' = NoStatus
              /\ pc' = "done"
              /\ raised' = exc

\* Entry: all_sweep = dict(), then error_check_sweep_input.
Call ==
    /\ pc = "idle"
    /\ \E qn \in QcompNames, on \in SweepNames,
          os \in SweepLists(MaxSweep), sa \in SweepSetupArgs, ll \in BOOLEAN :
        LET r == error_check_sweep_input(heap, qn, on, os) IN
        /\ qcomp_name' = qn
        /\ option_name' = on
        /\ option_sweep' = os
        /\ setup_args' = sa
        /\ args_given' = sa
        /\ leave_last_design' = ll
        /\ option_path' = r.option_path
        /\ a_value' = r.a_value
        /\ IF r.raised # "none" THEN Raise(r.raised)
           ELSE IF r.status # 0 THEN Return(r.status)
           ELSE /\ pc' = "connect"
                /\ UNCHANGED <<status, raised>>
    /\ UNCHANGED <<heap, qgeometry, ansysVars, kind, index, all_sweep, log>>
    /\ UNCHANGED sideVars

\* connect_ansys(); activate_*_design(design_name)
Connect ==
    /\ pc = "connect"
    /\ LET a == activate_design(project, designs, DesignName(kind)) IN
        /\ pinfo' = TRUE
        /\ designs' = a.designs
        /\ active' = a.active
    /\ log' = log \o <<"connect_ansys", "activate_design">>
    /\ pc' = "clean"
    /\ UNCHANGED <<heap, qgeometry, project, objects, setups, pinfo_setup, solved,
                   nAnalyze, nRender, argVars, localVars, status, raised>>
    /\ UNCHANGED sideVars

\* clean_active_design() ahead of the sweep
CleanFirst ==
    /\ pc = "clean"
    /\ objects' = clean_active_design(objects, active)
    /\ log' = Append(log, "clean_active_design")
    /\ pc' = "prep"
    /\ UNCHANGED <<heap, qgeometry, project, designs, active, setups, pinfo_setup,
                   solved, nAnalyze, nRender, pinfo, argVars, localVars, status,
                   raised>>
    /\ UNCHANGED sideVars

\* prep_q3d_setup(setup_args) / prep_eigenmode_setup(setup_args), then
\* len_sweep = len(option_sweep) - 1
Prep ==
    /\ pc = "prep"
    /\ LET r == prep_setup(kind, setup_args, active # NoDesign,
                           IF active = NoDesign THEN {} ELSE setups[active]) IN
        /\ setup_args' = IF setup_args.none THEN setup_args ELSE DictArgs(r.items)
        /\ setups' = IF active = NoDesign THEN setups
                     ELSE [setups EXCEPT ![active] = r.setups]
        /\ pinfo_setup' = IF r.added THEN SetupName(kind).v ELSE pinfo_setup
        /\ log' = log \o (IF r.raised # "none" THEN <<>>
                          ELSE IF r.added
                               THEN <<"delete_setup", "add_setup", "activate_setup">>
                               ELSE <<"delete_setup">>)
        /\ IF r.raised # "none" THEN Raise(r.raised) /\ index' = index
           ELSE IF r.status # 0 THEN Return(8) /\ index' = index
           ELSE /\ pc' = "set"
                /\ index' = 1
                /\ UNCHANGED <<status, raised>>
    /\ UNCHANGED <<heap, qgeometry, project, designs, active, objects, solved,
                   nAnalyze, nRender, pinfo, kind, qcomp_name, option_name,
                   option_sweep, args_given, leave_last_design, option_path,
                   a_value, all_sweep>>
    /\ UNCHANGED sideVars

\* Head of the loop: `if option_path[-1] in a_value.keys()` and the assignment.
SetOption ==
    /\ pc = "set"
    /\ IF heap[a_value].kind # "dict"
       THEN Raise("AttributeError") /\ UNCHANGED <<heap, log>>
       ELSE IF has_last_key(heap, a_value, option_path)
       THEN /\ heap' = set_option(heap, a_value, Last(option_path),
                                  option_sweep[index])
            /\ log' = Append(log, "set_option")
            /\ pc' = "rebuild"
            /\ UNCHANGED <<status, raised>>
       ELSE Return(5) /\ UNCHANGED <<heap, log>>
    /\ UNCHANGED <<qgeometry, ansysVars, argVars, localVars>>
    /\ UNCHANGED sideVars

\* Mutant of Rebuild: the design is rendered without being rebuilt.
RebuildForgotten ==
    /\ pc = "rebuild"
    /\ pc' = "render"
    /\ UNCHANGED <<heap, qgeometry, ansysVars, argVars, localVars, status, raised,
                   log>>
    /\ UNCHANGED sideVars

\* self.design.rebuild()
Rebuild ==
    /\ pc = "rebuild"
    /\ qgeometry' = heap
    /\ log' = Append(log, "rebuild")
    /\ pc' = "render"
    /\ UNCHANGED <<heap, ansysVars, argVars, localVars, status, raised>>
    /\ UNCHANGED sideVars

\* render_design(selection=qcomp_render, open_pins=endcaps_render, ...)
Render ==
    /\ pc = "render"
    /\ objects' = render_design(objects, active, qgeometry, nRender + 1)
    /\ nRender' = nRender + 1
    /\ log' = Append(log, "render_design")
    /\ pc' = "analyze"
    /\ UNCHANGED <<heap, qgeometry, project, designs, active, setups, pinfo_setup,
                   solved, nAnalyze, pinfo, argVars, localVars, status, raised>>
    /\ UNCHANGED sideVars

\* analyze_setup(pinfo.setup.name)
Analyze ==
    /\ pc = "analyze"
    /\ solved' = [run |-> nAnalyze + 1, objs |-> objects[active]]
    /\ nAnalyze' = nAnalyze + 1
    /\ log' = Append(log, "analyze_setup")
    /\ pc' = "extract"
    /\ UNCHANGED <<heap, qgeometry, project, designs, active, objects, setups,
                   pinfo_setup, nRender, pinfo, argVars, localVars, status, raised>>
    /\ UNCHANGED sideVars

\* get_capacitance_matrix() / get_solutions().eigenmodes(), and the entry
\* of all_sweep for this item
Extract ==
    /\ pc = "extract"
    /\ all_sweep' = store(all_sweep, option_sweep[index],
                          [option_name |-> Last(option_path), data |-> solved])
    /\ log' = Append(log, "extract")
    /\ pc' = "decide"
    /\ UNCHANGED <<heap, qgeometry, ansysVars, argVars, option_path, a_value,
                   index, status, raised>>
    /\ UNCHANGED sideVars

\* "Decide if need to clean the design", and the step of the loop.
CleanAfter ==
    /\ pc = "decide"
    /\ objects' = clean_after(objects, active, index, Len(option_sweep),
                              leave_last_design)
    /\ log' = IF objects' # objects THEN Append(log, "clean_active_design") ELSE log
    /\ index' = index + 1
    /\ pc' = IF index = Len(option_sweep) THEN "finish" ELSE "set"
    /\ UNCHANGED <<heap, qgeometry, project, designs, active, setups, pinfo_setup,
                   solved, nAnalyze, nRender, pinfo, argVars, option_path, a_value,
                   all_sweep, status, raised>>
    /\ UNCHANGED sideVars

\* disconnect_ansys(); return all_sweep, 0
Finish ==
    /\ pc = "finish"
    /\ pinfo' = FALSE
    /\ log' = Append(log, "disconnect_ansys")
    /\ Return(0)
    /\ UNCHANGED <<heap, qgeometry, project, designs, active, objects, setups,
                   pinfo_setup, solved, nAnalyze, nRender, argVars, localVars>>
    /\ UNCHANGED sideVars

Next ==
    \/ Call
    \/ Connect
    \/ CleanFirst
    \/ Prep
    \/ SetOption
    \/ Rebuild
    \/ Render
    \/ Analyze
    \/ Extract
    \/ CleanAfter
    \/ Finish

Spec == Init /\ [][Next]_vars

----------------------------------------------------------------------------
(* error_check_sweep_input called on its own.                              *)

CheckCall ==
    /\ pc = "idle"
    /\ \E qn \in QcompNames, on \in StringsUpTo(MaxNameLen),
          os \in SweepLists(1) :
        LET r == error_check_sweep_input(heap, qn, on, os) IN
        /\ qcomp_name' = qn
        /\ option_name' = on
        /\ option_sweep' = os
        /\ option_path' = r.option_path
        /\ a_value' = r.a_value
        /\ status' = r.status
        /\ raised' = r.raised
    /\ pc' = "checked"
    /\ UNCHANGED <<heap, qgeometry, ansysVars, kind, setup_args, args_given,
                   leave_last_design, index, all_sweep, log>>
    /\ UNCHANGED sideVars

NextCheck == CheckCall

SpecCheck == Init /\ [][NextCheck]_vars

----------------------------------------------------------------------------
(* prep_q3d_setup and prep_eigenmode_setup called on their own, with the   *)
(* design connected as their docstrings assume.                            *)

InitPrep ==
    /\ heap = InitHeap
    /\ qgeometry = InitHeap
    /\ project = TRUE
    /\ designs = DesignNames
    /\ objects = [d \in DesignNames |-> {}]
    /\ kind \in {"q3d", "hfss"}
    /\ active = DesignName(kind)
    /\ \E old \in BOOLEAN :
        setups = [d \in DesignNames |->
                    IF old /\ d = active THEN {OldSetup(kind)} ELSE {}]
    /\ pinfo = TRUE
    /\ pinfo_setup = NoSetup
    /\ solved = NoSolution
    /\ nAnalyze = 0
    /\ nRender = 0
    /\ InitLocals
    /\ SideIdle

PrepCall ==
    /\ pc = "idle"
    /\ \E items \in PrepItems(kind, MaxArgs) :
        LET r == prep_setup(kind, DictArgs(items), TRUE, setups[active]) IN
        /\ args_given' = DictArgs(items)
        /\ setup_args' = DictArgs(r.items)
        /\ setups' = [setups EXCEPT ![active] = r.setups]
        /\ pinfo_setup' = IF r.added THEN SetupName(kind).v ELSE pinfo_setup
        /\ status' = r.status
        /\ raised' = r.raised
        /\ log' = IF r.added THEN <<"delete_setup", "add_setup", "activate_setup">>
                  ELSE <<"delete_setup">>
    /\ pc' = "prepped"
    /\ UNCHANGED <<heap, qgeometry, project, designs, active, objects, solved,
                   nAnalyze, nRender, pinfo, kind, qcomp_name, option_name,
                   option_sweep, leave_last_design, localVars>>
    /\ UNCHANGED sideVars

NextPrep == PrepCall

SpecPrep == InitPrep /\ [][NextPrep]_vars

----------------------------------------------------------------------------
(* Vocabulary of the properties.                                           *)

\* The node reached from n by the first k segments of path, NullNode when
\* one of them is not a key of the mapping reached before it.
RECURSIVE Follow(_, _, _, _)
Follow(h, n, path, k) ==
    IF k = 0 THEN n
    ELSE LET m == Follow(h, n, path, k - 1) IN
         IF m # NullNode /\ h[m].kind = "dict" /\ path[k] \in Keys(h, m)
         THEN Child(h, m, path[k]) ELSE NullNode

Segments == Split(option_name)

\* The object reached by every segment of option_name but the last, in the
\* options the component had before the call.
Reached ==
    IF qcomp_name \in DOMAIN Components /\ option_name # <<>>
    THEN Follow(InitHeap, Components[qcomp_name], Segments, Len(Segments) - 1)
    ELSE NullNode

\* The input checks of a sweep pass.
InputsPass ==
    /\ option_sweep # <<>>
    /\ option_name # <<>>
    /\ qcomp_name \in DOMAIN Components
    /\ Reached # NullNode

Returned(st) == pc = "done" /\ raised = "none" /\ status = st

Count(ev) == Cardinality({j \in 1..Len(log) : log[j] = ev})

LastIndexOf(v) ==
    CHOOSE i \in 1..Len(option_sweep) :
        /\ option_sweep[i] = v
        /\ \A j \in (i + 1)..Len(option_sweep) : option_sweep[j] # v

\* The node of the option that the sweep assigns to.
Leaf == Child(InitHeap, a_value, Last(option_path))

----------------------------------------------------------------------------
(* C1: error_check_sweep_input returns 4 for an empty option_sweep, 2 for  *)
(* an empty option_name, 1 for a component that is not registered, 3 when  *)
(* a segment other than the last is absent from the mapping reached so     *)
(* far, and 0 otherwise, then with the mapping reached by all segments but *)
(* the last and with option_name split on '.'.                             *)
C1_Claimed ==
    pc = "checked" =>
        /\ raised = "none"
        /\ status = IF option_sweep = <<>> THEN 4
                    ELSE IF option_name = <<>> THEN 2
                    ELSE IF qcomp_name \notin DOMAIN Components THEN 1
                    ELSE IF Reached = NullNode THEN 3
                    ELSE 0
        /\ status = 0 => /\ a_value = Reached
                         /\ option_path = Segments

----------------------------------------------------------------------------
(* C2: when a sweep returns 0, the keys of the returned dict are the       *)
(* distinct values of option_sweep, and the entry of each value holds the  *)
(* last segment of the option path and the data extracted in the last      *)
(* iteration that used that value.                                         *)
C2_EntryPerSweepValue ==
    Returned(0) =>
        /\ DOMAIN all_sweep = {option_sweep[i] : i \in 1..Len(option_sweep)}
        /\ \A v \in DOMAIN all_sweep :
            /\ all_sweep[v].option_name = Last(Segments)
            /\ all_sweep[v].data.run = LastIndexOf(v)
            /\ all_sweep[v].data.objs # {}
            /\ \A o \in all_sweep[v].data.objs :
                /\ o.id = LastIndexOf(v)
                /\ o.geom[Leaf].val = v

C2_Witness ==
    /\ Returned(0)
    /\ Len(option_sweep) = 2
    /\ option_sweep[1] = option_sweep[2]
    /\ option_sweep[1] # InitHeap[Leaf].val

----------------------------------------------------------------------------
(* C3: in every iteration of a sweep the option is set to the current      *)
(* value, then the design is rebuilt, then rendered, then analysed, and    *)
(* only then are the results extracted.                                    *)
C3_OrderWithinIteration ==
    /\ \A j \in 1..Len(log) :
        /\ log[j] = "rebuild" => j > 1 /\ log[j - 1] = "set_option"
        /\ log[j] = "render_design" => j > 1 /\ log[j - 1] = "rebuild"
        /\ log[j] = "analyze_setup" => j > 1 /\ log[j - 1] = "render_design"
        /\ log[j] = "extract" => j > 1 /\ log[j - 1] = "analyze_setup"
    /\ pc \in {"rebuild", "render", "analyze", "extract"} =>
            heap[Leaf].val = option_sweep[index]
    /\ pc \in {"analyze", "extract"} =>
            \E o \in objects[active] : o.geom[Leaf].val = option_sweep[index]
    /\ pc = "extract" => solved.objs = objects[active] /\ solved.run = index
    /\ Returned(0) =>
        \A ev \in {"set_option", "rebuild", "render_design", "analyze_setup",
                   "extract"} : Count(ev) = Len(option_sweep)

C3_Witness ==
    /\ Returned(0)
    /\ Len(option_sweep) = 2
    /\ option_sweep[1] # option_sweep[2]

----------------------------------------------------------------------------
(* The setup arguments as the docstrings of the two prep methods list      *)
(* them: the type documented for each key.                                 *)

DocType(k, key) ==
    IF k = "q3d"
    THEN CASE key \in {"freq_ghz", "percent_error"} -> "float"
           [] key \in {"max_passes", "min_passes", "min_converged_passes",
                       "percent_refinement"} -> "int"
           [] key \in {"save_fields", "enabled",
                       "auto_increase_solution_order"} -> "bool"
           [] OTHER -> "str"
    ELSE CASE key = "max_delta_f" -> "float"
           [] key = "name" -> "str"
           [] OTHER -> "int"

AllowList(k) == IF k = "q3d" THEN Q3dParams ELSE EmParams

\* The value is of exactly the documented type, or None.
OfDocumentedType(k, key, value) ==
    \/ value = PyNone
    \/ /\ value.ty = DocType(k, key)
       /\ (k = "q3d" /\ key = "solution_order") => value.v \in SolutionOrders

\* The value is one the code lets through for an allowed key: whatever is
\* given for name, and otherwise None or an instance of the documented
\* type, where a bool is an instance of int.
Accepted(k, key, value) ==
    \/ key = "name"
    \/ value = PyNone
    \/ /\ \/ value.ty = DocType(k, key)
          \/ value.ty = "bool" /\ DocType(k, key) = "int"
       /\ (k = "q3d" /\ key = "solution_order") => value.v \in SolutionOrders

\* The first item that fails a test, 0 when none does.
FirstFailing(items, Ok(_, _)) ==
    IF \A i \in 1..Len(items) : Ok(items[i][1], items[i][2]) THEN 0
    ELSE CHOOSE i \in 1..Len(items) :
            /\ ~Ok(items[i][1], items[i][2])
            /\ \A j \in 1..(i - 1) : Ok(items[j][1], items[j][2])

\* The status the claim gives a call with these items, under a reading Ok
\* of 'a value of the right type'.
ExpectedPrepStatus(k, items, Ok(_, _, _)) ==
    LET Good(key, value) == key \in AllowList(k) /\ Ok(k, key, value)
        f == FirstFailing(items, Good)
    IN IF f = 0 THEN 0
       ELSE IF items[f][1] \in AllowList(k) THEN 1 ELSE 2

\* A Dict that the prep method of this kind turns down.
Rejected(k, args) ==
    /\ ~args.none
    /\ ExpectedPrepStatus(k, args.items, Accepted) # 0

\* A Dict with a key outside the allow-list or a value of the wrong type.
Faulty(k, args) ==
    /\ ~args.none
    /\ ExpectedPrepStatus(k, args.items, OfDocumentedType) # 0

NoSweepStep ==
    /\ heap = InitHeap
    /\ \A ev \in {"set_option", "rebuild", "render_design", "analyze_setup",
                  "extract"} : Count(ev) = 0

----------------------------------------------------------------------------
----------------------------------------------------------------------------
(* C5, as claimed: if every segment but the last resolves and the last is  *)
(* not a key of the mapping reached, the sweep returns status 5 with an    *)
(* empty dict, and has not touched an option, rebuilt or rendered.         *)
LastKeyMissing ==
    /\ InputsPass
    /\ InitHeap[Reached].kind = "dict"
    /\ Last(Segments) \notin Keys(InitHeap, Reached)

----------------------------------------------------------------------------
(* C6, as claimed: a sweep whose inputs pass returns status 6 when the     *)
(* Ansys project is not available and status 7 when the design is not.     *)
C6_Claimed ==
    (pc = "done" /\ InputsPass) =>
        /\ ~project => Returned(6)
        /\ (project /\ active = NoDesign) => Returned(7)

----------------------------------------------------------------------------
(* C7, as claimed: with setup_args None a sweep uses the default setup and *)
(* carries out the sweep.                                                  *)
C7_Claimed ==
    (pc = "done" /\ InputsPass /\ project /\ args_given.none
        /\ InitHeap[Reached].kind = "dict"
        /\ Last(Segments) \in Keys(InitHeap, Reached)) =>
        /\ Returned(0)
        /\ Count("extract") = Len(option_sweep)

----------------------------------------------------------------------------
(* C8, as claimed: the prep methods return 0 exactly when every key is in  *)
(* the allow-list and every value is of the documented type or None;       *)
(* otherwise the first failing key decides, 1 for an allowed key with a    *)
(* value of the wrong type and 2 for a key outside the allow-list; a setup *)
(* is added and activated only when 0 is returned.                         *)
C8_Claimed ==
    pc = "prepped" =>
        /\ status = ExpectedPrepStatus(kind, args_given.items, OfDocumentedType)
        /\ Count("add_setup") = 1 <=> status = 0

(* C8, amended: as claimed, except that the value given for name is never  *)
(* tested (it is replaced by the fixed setup name) and that a value is of  *)
(* the right type when isinstance says so, which lets a bool through where *)
(* an int is documented.                                                   *)
C8_PrepStatus ==
    pc = "prepped" =>
        /\ raised = "none"
        /\ status = ExpectedPrepStatus(kind, args_given.items, Accepted)
        /\ Count("add_setup") = 1 <=> status = 0
        /\ Count("activate_setup") = 1 <=> status = 0
        /\ (\E su \in setups[active] : su["name"] = SetupName(kind)) <=> status = 0
        /\ pinfo_setup = IF status = 0 THEN SetupName(kind).v ELSE NoSetup

C8_Witness ==
    /\ pc = "prepped"
    /\ status = 1
    /\ Len(args_given.items) = 2
    /\ args_given.items[1][1] \in AllowList(kind)
    /\ args_given.items[2][1] \notin AllowList(kind)

----------------------------------------------------------------------------
(* C9, as claimed: a call of a prep method made while a setup of its fixed *)
(* name exists leaves a setup of that name in the design, made from the    *)
(* arguments of setup_args.                                                *)
C9_Claimed ==
    [][(pc = "idle" /\ \E su \in setups[active] : su["name"] = SetupName(kind))
        => /\ \E su \in setups'[active] : su["name"] = SetupName(kind)
           /\ \A su \in setups'[active] : su # OldSetup(kind)]_vars

----------------------------------------------------------------------------
----------------------------------------------------------------------------
(* QQ3DRenderer on its own: add_q3d_setup, activate_q3d_setup,             *)
(* edit_q3d_setup, get_capacitance_matrix, assign_thin_conductor and       *)
(* render_design called in any order, on a renderer that may or may not    *)
(* hold a connection, a project and a design.  Here pinfo_setup is the     *)
(* setup object pinfo.setup refers to, known by the name it has in Ansys,  *)
(* and pinfo_setup_name is the string pinfo.setup_name.                    *)

MaxSetups == 2
MaxRenders == 1

QQ3DRenderer_name == "q3d"

\* Names Ansys can give to a setup.
SetupNames == {"Setup", "Setup1", "Setup2", "A", Q3dSetupName.v}

\* `if self.pinfo: if self.pinfo.project: if self.pinfo.design:`
Available == pinfo /\ project /\ active # NoDesign

\* pinfo.design.get_setup_names()
get_setup_names(ss) == {s["name"].v : s \in ss}

\* pinfo.get_setup(name)
get_setup(ss, name) == CHOOSE s \in ss : s["name"].v = name

\* pinfo.design.create_q3d_setup(**args): the setup inserted in the design.
\* Setup names are unique in a design: a name that is taken is replaced by
\* a free one.
create_q3d_setup(ss, args, fresh) ==
    IF args["name"].v \in get_setup_names(ss)
    THEN [args EXCEPT !["name"] = PyStr(fresh)]
    ELSE args

\* The names create_q3d_setup can end up with for a setup asked for under
\* name: the name itself, or any free name when it is taken.
FreeNames(ss, name) ==
    IF name \in get_setup_names(ss) THEN SetupNames \ get_setup_names(ss)
    ELSE {name}

Warning == <<"warning">>

\* Mutant of activate_q3d_setup: without a name, setup_name is set to the
\* default name instead of the name of the setup that was created.
activate_default_name(name, ss, fresh) ==
    IF Truthy(name)
    THEN IF name.v \in get_setup_names(ss)
         THEN [setups |-> ss, setup |-> name.v, setup_name |-> name.v,
               created |-> <<>>]
         ELSE LET args == add_q3d_setup(<< <<"name", name>> >>)
                  new == create_q3d_setup(ss, args, fresh)
              IN [setups |-> ss \cup {new}, setup |-> new["name"].v,
                  setup_name |-> name.v, created |-> <<args>>]
    ELSE LET args == add_q3d_setup(<<>>)
             new == create_q3d_setup(ss, args, fresh)
         IN [setups |-> ss \cup {new}, setup |-> new["name"].v,
             setup_name |-> args["name"].v, created |-> <<args>>]

\* activate_q3d_setup(name) once pinfo, project and design are there:
\* the setups of the design, pinfo.setup and pinfo.setup_name afterwards.
activate_q3d_setup(name, ss, fresh) ==
    IF Truthy(name)
    THEN IF name.v \in get_setup_names(ss)
         THEN [setups |-> ss, setup |-> name.v, setup_name |-> name.v,
               created |-> <<>>]
         ELSE LET args == add_q3d_setup(<< <<"name", name>> >>)
                  new == create_q3d_setup(ss, args, fresh)
              IN [setups |-> ss \cup {new}, setup |-> new["name"].v,
                  setup_name |-> name.v, created |-> <<args>>]
    ELSE LET args == add_q3d_setup(<<>>)
             new == create_q3d_setup(ss, args, fresh)
         IN [setups |-> ss \cup {new}, setup |-> new["name"].v,
             setup_name |-> new["name"].v, created |-> <<args>>]

\* f"{value}GHz"
GHz(value) == [ty |-> "GHz", v |-> value.v]

\* The attribute of pinfo.setup that edit_q3d_setup writes for a key:
\* frequency, max_pass, min_pass, pct_error.
EditChecks(key, value) ==
    CASE key = "freq_ghz" -> IsInstance(value, "float")
      [] key \in {"max_passes", "min_passes"} -> IsInstance(value, "int")
      [] key = "percent_error" -> IsInstance(value, "float")
      [] OTHER -> FALSE

RECURSIVE EditFrom(_, _, _)
\* The loop of edit_q3d_setup from item i on.  A value of the wrong type is
\* warned about twice: the branch of its key does not `continue`, so the
\* warning at the end of the body is logged as well.
EditFrom(s, items, i) ==
    IF i > Len(items) THEN [setup |-> s, log |-> <<>>]
    ELSE LET key == items[i][1]
             value == items[i][2]
             known == key \in {"freq_ghz", "max_passes", "min_passes",
                               "percent_error"}
             s2 == IF key # "name" /\ EditChecks(key, value)
                   THEN [s EXCEPT ![key] = IF key = "freq_ghz" THEN GHz(value)
                                           ELSE value]
                   ELSE s
             w == IF key = "name" \/ EditChecks(key, value) THEN <<>>
                  ELSE IF known THEN Warning \o Warning
                  ELSE Warning
             rest == EditFrom(s2, items, i + 1)
         IN [setup |-> rest.setup, log |-> w \o rest.log]

\* `self.pinfo.setup_name != setup_args.name`; a Dict without the key gives
\* an empty Dict, which differs from every name.
NameDiffers(items, name) ==
    ~HasKey(items, "name") \/ GetKey(items, "name") # PyStr(name)

\* Mutant of edit_q3d_setup: the name of setup_args is not compared with the
\* name of the active setup.
edit_any_setup(items, ok, soltype, ss, cur, curname) ==
    IF ok /\ soltype = "Q3D" /\ cur # NoSetup
    THEN LET r == EditFrom(get_setup(ss, cur), items, 1) IN
         [setups |-> (ss \ {get_setup(ss, cur)}) \cup {r.setup}, log |-> r.log]
    ELSE [setups |-> ss, log |-> Warning]

\* edit_q3d_setup(setup_args): the setups of the design and the warnings
\* logged; ok says that pinfo, project and design are there.
edit_q3d_setup(items, ok, soltype, ss, cur, curname) ==
    IF ok /\ soltype = "Q3D" /\ ~NameDiffers(items, curname)
    THEN LET r == EditFrom(get_setup(ss, cur), items, 1) IN
         [setups |-> (ss \ {get_setup(ss, cur)}) \cup {r.setup}, log |-> r.log]
    ELSE [setups |-> ss, log |-> Warning]

\* get_capacitance_matrix: the arguments handed to pinfo.setup.get_matrix.
get_capacitance_matrix(opts, args) ==
    LET qo == opts.get_capacitance_matrix IN
    << <<"variation", IF Truthy(args[1][2]) THEN args[1][2]
                      ELSE PyStr(qo.variation)>>,
       <<"solution_kind", IF Truthy(args[2][2]) THEN args[2][2]
                          ELSE PyStr(qo.solution_kind)>>,
       <<"pass_number", IF Truthy(args[3][2]) THEN args[3][2]
                        ELSE PyInt(qo.pass_number)>> >>

\* assign_thin_conductor: what is handed to boundaries.AssignThinConductor.
assign_thin_conductor(opts, args) ==
    << <<"NAME", IF Truthy(args[3][2]) THEN args[3][2] ELSE PyStr("ThinCond1")>>,
       <<"Material", IF Truthy(args[1][2]) THEN args[1][2]
                     ELSE PyStr(opts.material_type)>>,
       <<"Thickness", IF Truthy(args[2][2]) THEN args[2][2]
                      ELSE PyStr(opts.material_thickness)>> >>

\* Keyword arguments tried on add_q3d_setup.
AddSetupInputs ==
    {<<>>,
     << <<"name", PyStr("A")>>, <<"max_passes", PyInt("7")>> >>,
     << <<"enabled", PyBool("False")>> >>,
     << <<"max_passes", PyInt("0")>> >>,
     << <<"save_fields", PyBool("False")>>, <<"solver_type", PyStr("Direct")>> >>}

\* Names tried on activate_q3d_setup.
ActivateInputs ==
    {PyNone, PyStr(""), PyStr("Setup"), PyStr("A"), Q3dSetupName}

\* setup_args tried on edit_q3d_setup.
EditInputs ==
    {<< <<"max_passes", PyInt("7")>> >>,
     << <<"name", PyStr("Setup")>>, <<"max_passes", PyInt("7")>> >>,
     << <<"name", PyStr("A")>>, <<"freq_ghz", PyFloat("2.5")>> >>,
     << <<"name", PyStr("A")>>, <<"freq_ghz", PyInt("7")>>,
        <<"solver_type", PyStr("Direct")>> >>,
     << <<"name", Q3dSetupName>>, <<"percent_error", PyFloat("2.5")>>,
        <<"min_passes", PyBool("True")>> >>}

GetMatrixInputs ==
    {<< <<"variation", PyStr("")>>, <<"solution_kind", PyStr("LastAdaptive")>>,
        <<"pass_number", PyInt("3")>> >>,
     << <<"variation", PyStr("")>>, <<"solution_kind", PyStr("")>>,
        <<"pass_number", PyInt("0")>> >>}

ThinConductorInputs ==
    {<< <<"material_type", PyStr("pec")>>, <<"thickness", PyStr("200 nm")>>,
        <<"name", PyNone>> >>,
     << <<"material_type", PyStr("")>>, <<"thickness", PyStr("")>>,
        <<"name", PyStr("A")>> >>}

InitQ3d ==
    /\ heap = InitHeap
    /\ qgeometry = InitHeap
    /\ pinfo \in BOOLEAN
    /\ project \in {p \in BOOLEAN : p => pinfo}
    /\ active \in {d \in {NoDesign, DesignName("q3d")} : d # NoDesign => project}
    /\ designs = IF active = NoDesign THEN {} ELSE {active}
    /\ solution_type \in {t \in {"Q3D", "Eigenmode"} :
                            active = NoDesign => t = "Q3D"}
    /\ objects = [d \in DesignNames |-> {}]
    /\ \E old \in {{}, {add_q3d_setup(<<>>)}, {OldSetup("q3d")}} :
        setups = [d \in DesignNames |-> IF d = active THEN old ELSE {}]
    /\ pinfo_setup = NoSetup
    /\ pinfo_setup_name = NoSetup
    /\ solved = NoSolution
    /\ nAnalyze = 0
    /\ nRender = 0
    /\ kind = "q3d"
    /\ q3d_options = Q3dOptions
    /\ created = <<>>
    /\ called = NoCall
    /\ InitLocals
    /\ GuiIdle
    /\ CpwIdle

sweepOnlyVars == <<heap, qgeometry, project, designs, active, solved, nAnalyze,
                   pinfo, argVars, localVars, status, pc, solution_type,
                   guiVars, cpwVars>>

\* add_q3d_setup(**items) without the class options
AddSetupBody(items, fresh) ==
    LET args == add_q3d_setup(items)
        has == pinfo /\ active # NoDesign
    IN /\ has => /\ Cardinality(setups[active]) < MaxSetups
                 /\ fresh \in FreeNames(setups[active], args["name"].v)
       /\ ~has => fresh = args["name"].v
       /\ called' = [op |-> "add_q3d_setup", args |-> items]
       /\ created' = IF has THEN <<args>> ELSE <<>>
       /\ setups' = IF has
                    THEN [setups EXCEPT
                            ![active] = @ \cup {create_q3d_setup(@, args, fresh)}]
                    ELSE setups
       /\ log' = IF has THEN <<"create_q3d_setup">> ELSE <<>>
       /\ raised' = "none"
       /\ UNCHANGED <<sweepOnlyVars, pinfo_setup, pinfo_setup_name, objects,
                      nRender>>

\* Mutant of AddSetupCall: the name the caller gave is remembered in the
\* options as the new default.
AddSetupCallStoring ==
    \E items \in AddSetupInputs, fresh \in SetupNames :
        /\ AddSetupBody(items, fresh)
        /\ q3d_options' =
              IF HasKey(items, "name")
              THEN [q3d_options EXCEPT !.add_setup.name = GetKey(items, "name").v]
              ELSE q3d_options

\* add_q3d_setup(**items)
AddSetupCall ==
    \E items \in AddSetupInputs, fresh \in SetupNames :
        /\ AddSetupBody(items, fresh)
        /\ UNCHANGED q3d_options

\* activate_q3d_setup(name)
ActivateSetupCall ==
    /\ \E name \in ActivateInputs :
        /\ called' = [op |-> "activate_q3d_setup",
                      args |-> << <<"setup_name_activate", name>> >>]
        /\ IF Available
           THEN \E fresh \in FreeNames(setups[active],
                                       IF Truthy(name) THEN name.v
                                       ELSE q3d_options.add_setup.name) :
                LET r == activate_q3d_setup(name, setups[active], fresh) IN
                /\ Cardinality(r.setups) =< MaxSetups
                /\ setups' = [setups EXCEPT ![active] = r.setups]
                /\ pinfo_setup' = r.setup
                /\ pinfo_setup_name' = r.setup_name
                /\ created' = r.created
                /\ log' = IF r.created = <<>> THEN <<"get_setup">>
                          ELSE <<"create_q3d_setup">>
           ELSE /\ log' = Warning
                /\ created' = <<>>
                /\ UNCHANGED <<setups, pinfo_setup, pinfo_setup_name>>
    /\ raised' = "none"
    /\ UNCHANGED <<sweepOnlyVars, q3d_options, objects, nRender>>

\* edit_q3d_setup(setup_args)
EditSetupCall ==
    /\ \E items \in EditInputs :
        LET r == edit_q3d_setup(items, Available, solution_type,
                                IF active = NoDesign THEN {} ELSE setups[active],
                                pinfo_setup, pinfo_setup_name) IN
        /\ called' = [op |-> "edit_q3d_setup", args |-> items]
        /\ setups' = IF active = NoDesign THEN setups
                     ELSE [setups EXCEPT ![active] = r.setups]
        /\ log' = r.log
    /\ created' = <<>>
    /\ raised' = "none"
    /\ UNCHANGED <<sweepOnlyVars, q3d_options, pinfo_setup, pinfo_setup_name,
                   objects, nRender>>

\* get_capacitance_matrix(variation, solution_kind, pass_number): nothing
\* without pinfo, AttributeError when pinfo.setup is None.
GetCapacitanceMatrixCall ==
    /\ \E args \in GetMatrixInputs :
        /\ called' = [op |-> "get_capacitance_matrix", args |-> args]
        /\ log' = IF pinfo /\ pinfo_setup # NoSetup
                  THEN <<"get_matrix">> \o
                       [i \in 1..3 |-> get_capacitance_matrix(q3d_options, args)[i][2].v]
                  ELSE <<>>
    /\ raised' = IF pinfo /\ pinfo_setup = NoSetup THEN "AttributeError" ELSE "none"
    /\ created' = <<>>
    /\ UNCHANGED <<sweepOnlyVars, q3d_options, setups, pinfo_setup,
                   pinfo_setup_name, objects, nRender>>

\* assign_thin_conductor(material_type, thickness, name): self.boundaries is
\* None without pinfo or design.
AssignThinConductorCall ==
    /\ \E args \in ThinConductorInputs :
        /\ called' = [op |-> "assign_thin_conductor", args |-> args]
        /\ log' = IF pinfo /\ active # NoDesign
                  THEN <<"AssignThinConductor">> \o
                       [i \in 1..3 |-> assign_thin_conductor(q3d_options, args)[i][2].v]
                  ELSE <<>>
    /\ raised' = IF pinfo /\ active # NoDesign THEN "none" ELSE "AttributeError"
    /\ created' = <<>>
    /\ UNCHANGED <<sweepOnlyVars, q3d_options, setups, pinfo_setup,
                   pinfo_setup_name, objects, nRender>>

\* render_design(selection, open_pins, box_plus_buffer): a warning when the
\* selection names a component the design does not have (case 2).
RenderDesignCall ==
    /\ \E found \in BOOLEAN :
        /\ called' = [op |-> "render_design",
                      args |-> << <<"selection",
                                    PyBool(IF found THEN "True" ELSE "False")>> >>]
        /\ IF ~found
           THEN /\ log' = Warning
                /\ raised' = "none"
                /\ UNCHANGED <<objects, nRender>>
           ELSE IF pinfo /\ active # NoDesign
           THEN /\ nRender < MaxRenders
                /\ objects' = render_design(objects, active, qgeometry, nRender + 1)
                /\ nRender' = nRender + 1
                /\ log' = <<"render_design", "AssignThinConductor", "pec", "200 nm">>
                /\ raised' = "none"
           ELSE /\ log' = <<>>
                /\ raised' = "AttributeError"
                /\ UNCHANGED <<objects, nRender>>
    /\ created' = <<>>
    /\ UNCHANGED <<sweepOnlyVars, q3d_options, setups, pinfo_setup,
                   pinfo_setup_name>>

NextQ3d ==
    \/ AddSetupCall
    \/ ActivateSetupCall
    \/ EditSetupCall
    \/ GetCapacitanceMatrixCall
    \/ AssignThinConductorCall
    \/ RenderDesignCall

SpecQ3d == InitQ3d /\ [][NextQ3d]_vars

----------------------------------------------------------------------------
(* Vocabulary of the properties of the renderer.                           *)

\* The caller gave a value for parameter p (None is the parameter's default).
Provided(items, p) == HasKey(items, p) /\ GetKey(items, p) # PyNone

\* The value q3d_options['add_setup'] holds for p, converted to the type of
\* the parameter.
OptionValue(p) ==
    LET t == Q3dOptions.add_setup[p] IN
    CASE p \in {"freq_ghz", "percent_error"} -> [ty |-> "float", v |-> t]
      [] p \in {"max_passes", "min_passes", "min_converged_passes",
                "percent_refinement"} -> [ty |-> "int", v |-> t]
      [] p \in {"save_fields", "enabled", "auto_increase_solution_order"} ->
            [ty |-> "bool", v |-> t]
      [] OTHER -> [ty |-> "str", v |-> t]

----------------------------------------------------------------------------
(* C11, as claimed: add_q3d_setup hands every value the caller provides,   *)
(* False and 0 included, to create_q3d_setup as it is, and a value of      *)
(* q3d_options['add_setup'] only for an argument the caller did not        *)
(* provide.                                                                *)
C11_Claimed ==
    (called.op = "add_q3d_setup" /\ created # <<>>) =>
        \A p \in Q3dParams :
            created[1][p] = IF Provided(called.args, p)
                            THEN GetKey(called.args, p) ELSE OptionValue(p)

----------------------------------------------------------------------------
(* C12.  The step is a call of activate_q3d_setup; named says which names  *)
(* count as given.                                                         *)
ActivateStep == called'.op = "activate_q3d_setup"
ActivateName == called'.args[1][2]
AddedSetups == setups'[active] \ setups[active]

ActivateDoes(named) ==
    IF Available
    THEN /\ (named /\ ActivateName.v \in get_setup_names(setups[active])) =>
                /\ setups' = setups
                /\ created' = <<>>
                /\ pinfo_setup' = ActivateName.v
         /\ (named /\ ActivateName.v \notin get_setup_names(setups[active])) =>
                /\ \E s \in setups'[active] :
                    AddedSetups = {s} /\ s["name"] = ActivateName
                /\ setups[active] \subseteq setups'[active]
                /\ pinfo_setup' = ActivateName.v
         /\ ~named =>
                /\ Cardinality(AddedSetups) = 1
                /\ setups[active] \subseteq setups'[active]
                /\ Len(created') = 1
                /\ created'[1]["name"].v = Q3dOptions.add_setup.name
                /\ \E s \in AddedSetups : pinfo_setup' = s["name"].v
         /\ pinfo_setup' \in get_setup_names(setups'[active])
         /\ pinfo_setup_name' = pinfo_setup'
    ELSE /\ log' = Warning
         /\ UNCHANGED <<pinfo_setup, pinfo_setup_name, setups>>

----------------------------------------------------------------------------
(* C13: edit_q3d_setup changes no attribute of any setup and logs one      *)
(* warning when setup_args.name differs from the name of the active setup, *)
(* when the solution type of the design is not 'Q3D', or when pinfo,       *)
(* project or design is missing.                                           *)
EditStep == called'.op = "edit_q3d_setup"

EditTurnedDown ==
    \/ ~Available
    \/ solution_type # "Q3D"
    \/ ~HasKey(called'.args, "name")
    \/ GetKey(called'.args, "name").v # pinfo_setup_name

C13_EditLeavesSetup ==
    [][(EditStep /\ EditTurnedDown) =>
            /\ setups' = setups
            /\ log' = Warning
            /\ raised' = "none"
            /\ UNCHANGED <<pinfo_setup, pinfo_setup_name>>]_vars

C13_Witness ==
    /\ called.op = "edit_q3d_setup"
    /\ Available
    /\ solution_type = "Q3D"
    /\ pinfo_setup = "Setup"
    /\ HasKey(called.args, "name")
    /\ GetKey(called.args, "name") = PyStr("A")
    /\ HasKey(called.args, "freq_ghz")
    /\ GetKey(called.args, "freq_ghz") = PyFloat("2.5")
    /\ log = Warning
    /\ get_setup(setups[active], "Setup")["freq_ghz"] = PyFloat("5.0")

----------------------------------------------------------------------------
(* C14: QQ3DRenderer.name is 'q3d' and q3d_options holds the defaults that *)
(* test_renderer_qq3d_render_options asserts (4 keys, 12 keys of           *)
(* add_setup, 3 keys of get_capacitance_matrix, and the listed strings),   *)
(* whatever calls of add_q3d_setup, activate_q3d_setup, edit_q3d_setup,    *)
(* get_capacitance_matrix, assign_thin_conductor and render_design have    *)
(* been made.                                                              *)
C14_DefaultOptions ==
    /\ QQ3DRenderer_name = "q3d"
    /\ Cardinality(DOMAIN q3d_options) = 4
    /\ Cardinality(DOMAIN q3d_options.add_setup) = 12
    /\ Cardinality(DOMAIN q3d_options.get_capacitance_matrix) = 3
    /\ q3d_options.material_type = "pec"
    /\ q3d_options.material_thickness = "200nm"
    /\ q3d_options.add_setup.freq_ghz = "5.0"
    /\ q3d_options.add_setup.name = "Setup"
    /\ q3d_options.add_setup.save_fields = "False"
    /\ q3d_options.add_setup.enabled = "True"
    /\ q3d_options.add_setup.max_passes = "15"
    /\ q3d_options.add_setup.min_passes = "2"
    /\ q3d_options.add_setup.min_converged_passes = "2"
    /\ q3d_options.add_setup.percent_error = "0.5"
    /\ q3d_options.add_setup.percent_refinement = "30"
    /\ q3d_options.add_setup.auto_increase_solution_order = "True"
    /\ q3d_options.add_setup.solution_order = "High"
    /\ q3d_options.add_setup.solver_type = "Iterative"
    /\ q3d_options.get_capacitance_matrix.variation = ""
    /\ q3d_options.get_capacitance_matrix.solution_kind = "AdaptivePass"
    /\ q3d_options.get_capacitance_matrix.pass_number = "3"

C14_Witness ==
    /\ called.op = "get_capacitance_matrix"
    /\ log = <<"get_matrix", "", "AdaptivePass", "3">>
    /\ \E s \in setups[active] :
        s["name"] = PyStr("A") /\ s["freq_ghz"] = GHz(PyFloat("2.5"))
    /\ nRender = 1

----------------------------------------------------------------------------
(* C17: after a sweep method has returned 0 the swept option holds the     *)
(* last value of option_sweep, and every other option of every component   *)
(* is what it was before the sweep.                                        *)

\* Paths of options of up to three keys.
OptionKeys == {<<"a">>, <<"b">>}
OptionPaths == UNION {[1..n -> OptionKeys] : n \in 1..3}

\* The option of component c at path, in the options h: what kind of value
\* it is and, for a string, which; absent when the path leads nowhere.
OptionAt(h, c, path) ==
    LET n == Follow(h, Components[c], path, Len(path)) IN
    IF n = NullNode THEN [kind |-> "absent", val |-> <<>>]
    ELSE [kind |-> h[n].kind, val |-> h[n].val]

\* path is the swept option, or lies inside the value the swept option had.
UnderSwept(c, path) ==
    /\ c = qcomp_name
    /\ Len(path) >= Len(option_path)
    /\ \A i \in 1..Len(option_path) : path[i] = option_path[i]

C17_OnlySweptOptionChanged ==
    Returned(0) =>
        /\ OptionAt(heap, qcomp_name, option_path) =
                [kind |-> "str", val |-> option_sweep[Len(option_sweep)]]
        /\ \A c \in DOMAIN Components, path \in OptionPaths :
                ~UnderSwept(c, path) =>
                    OptionAt(heap, c, path) = OptionAt(InitHeap, c, path)

C17_Witness ==
    /\ Returned(0)
    /\ qcomp_name = "Q1"
    /\ option_path = << <<"a">>, <<"a">> >>
    /\ option_sweep = << <<"a">>, <<"b">> >>
    /\ OptionAt(InitHeap, "Q1", option_path).kind = "dict"
    /\ OptionAt(heap, "Q1", option_path).val = <<"b">>

----------------------------------------------------------------------------
(* C18: the keys prep_q3d_setup accepts are the parameter names of         *)
(* add_q3d_setup and the keys of q3d_options['add_setup'], so that         *)
(* add_q3d_setup, called with setup_args as its keywords, gets no keyword  *)
(* it does not have whenever the validation has yielded 0.                 *)
KeyUniverse == Q3dParams \cup EmParams \cup PrepKeys("q3d") \cup PrepKeys("hfss")

\* Keys the loop of prep_q3d_setup does not answer with 2.
PrepAccepts == {key \in KeyUniverse : Q3dCheckKey(key, PyNone) # 2}

C18_KeysAgree ==
    /\ PrepAccepts = Q3dParams
    /\ PrepAccepts = DOMAIN q3d_options.add_setup
    /\ (pc = "prepped" /\ kind = "q3d" /\ status = 0) =>
            \A i \in 1..Len(setup_args.items) :
                setup_args.items[i][1] \in Q3dParams

C18_Witness ==
    /\ pc = "prepped"
    /\ kind = "q3d"
    /\ status = 0
    /\ Len(args_given.items) = 2
    /\ ~HasKey(args_given.items, "name")
    /\ HasKey(setup_args.items, "name")

----------------------------------------------------------------------------
(* MetalGUI and its main window: the constructor, set_design and the three *)
(* show_renderer_* handlers.                                               *)

GuiDesigns == {"d1", "d2", "d3"}

sweepIdleVars == <<heap, qgeometry, ansysVars, argVars, localVars, status, pc,
                   pinfo_setup, q3d_options, pinfo_setup_name, solution_type,
                   created>>

SweepIdle ==
    /\ heap = InitHeap
    /\ qgeometry = InitHeap
    /\ project = FALSE
    /\ designs = {}
    /\ active = NoDesign
    /\ objects = [d \in DesignNames |-> {}]
    /\ setups = [d \in DesignNames |-> {}]
    /\ pinfo_setup = NoSetup
    /\ solved = NoSolution
    /\ nAnalyze = 0
    /\ nRender = 0
    /\ pinfo = FALSE
    /\ kind = "q3d"
    /\ q3d_options = Q3dOptions
    /\ pinfo_setup_name = NoSetup
    /\ solution_type = "Q3D"
    /\ created = <<>>
    /\ pc = "idle"
    /\ qcomp_name = "Q9"
    /\ option_name = <<>>
    /\ option_sweep = <<>>
    /\ setup_args = NoneArgs
    /\ args_given = NoneArgs
    /\ leave_last_design = TRUE
    /\ option_path = NoPath
    /\ a_value = NullNode
    /\ index = 0
    /\ all_sweep = <<>>
    /\ status = NoStatus

SetDesignArgs(d) == [op |-> "set_design", args |-> << <<"design", PyStr(d)>> >>]

\* Mutant of set_design: q3d_gui is not handed the design.
set_design_without_q3d(d, guis) ==
    [design |-> d,
     enabled |-> [w \in DesignWidgets |-> TRUE],
     plot |-> d,
     guis |-> [r \in RendererGuis |->
                IF guis[r].open /\ r # "q3d_gui"
                THEN [open |-> TRUE, design |-> d] ELSE guis[r]],
     variables |-> d,
     steps |-> <<"_set_enabled_design_widgets", "plot_win.set_design",
                 "elements_win.force_refresh">>
               \o (IF guis["gds_gui"].open THEN <<"gds_gui.set_design">> ELSE <<>>)
               \o (IF guis["hfss_gui"].open THEN <<"hfss_gui.set_design">> ELSE <<>>)
               \o <<"variables_window.set_design", "refresh">>]

\* MetalGUI.set_design(d), given the widgets the main window refers to: the
\* fields of the gui afterwards and the calls made, in their order.
set_design(d, guis) ==
    [design |-> d,
     enabled |-> [w \in DesignWidgets |-> TRUE],
     plot |-> d,
     guis |-> [r \in RendererGuis |->
                IF guis[r].open THEN [open |-> TRUE, design |-> d] ELSE guis[r]],
     variables |-> d,
     steps |-> <<"_set_enabled_design_widgets", "plot_win.set_design",
                 "elements_win.force_refresh">>
               \o (IF guis["gds_gui"].open THEN <<"gds_gui.set_design">> ELSE <<>>)
               \o (IF guis["hfss_gui"].open THEN <<"hfss_gui.set_design">> ELSE <<>>)
               \o (IF guis["q3d_gui"].open THEN <<"q3d_gui.set_design">> ELSE <<>>)
               \o <<"variables_window.set_design", "refresh">>]

\* MetalGUI(design): `if design: self.set_design(design)`, otherwise
\* _set_enabled_design_widgets(False).
InitGui ==
    /\ SweepIdle
    /\ CpwIdle
    /\ raised = "none"
    /\ \E d \in GuiDesigns \cup {NoGuiDesign} :
        IF d # NoGuiDesign
        THEN LET r == set_design(d, [g \in RendererGuis |-> NoWidget]) IN
             /\ gui_design = r.design
             /\ gui_enabled = r.enabled
             /\ plot_win_design = r.plot
             /\ variables_design = r.variables
             /\ renderer_guis = r.guis
             /\ log = r.steps
             /\ called = SetDesignArgs(d)
        ELSE /\ gui_design = NoGuiDesign
             /\ gui_enabled = [w \in DesignWidgets |-> FALSE]
             /\ plot_win_design = NoGuiDesign
             /\ variables_design = NoGuiDesign
             /\ renderer_guis = [g \in RendererGuis |-> NoWidget]
             /\ log = <<"_set_enabled_design_widgets">>
             /\ called = [op |-> "MetalGUI", args |-> <<>>]

\* gui.set_design(d)
SetDesign ==
    /\ \E d \in GuiDesigns :
        LET r == set_design(d, renderer_guis) IN
        /\ gui_design' = r.design
        /\ gui_enabled' = r.enabled
        /\ plot_win_design' = r.plot
        /\ variables_design' = r.variables
        /\ renderer_guis' = r.guis
        /\ log' = r.steps
        /\ called' = SetDesignArgs(d)
    /\ UNCHANGED <<sweepIdleVars, cpwVars, raised>>

\* A renderer widget that has been built and not been given a design since.
Shown == [open |-> TRUE, design |-> NoGuiDesign]

\* show_renderer_gds: a new widget takes the place of the one the main window
\* referred to, and is shown.
ShowRendererGds ==
    /\ renderer_guis' = [renderer_guis EXCEPT !["gds_gui"] = Shown]
    /\ log' = <<"gds_gui.show">>
    /\ called' = [op |-> "show_renderer_gds", args |-> <<>>]
    /\ UNCHANGED <<sweepIdleVars, cpwVars, raised, gui_design, gui_enabled,
                   plot_win_design, variables_design>>

\* show_renderer_hfss: a new widget takes the place of the one the main window
\* referred to, and is shown.
ShowRendererHfss ==
    /\ renderer_guis' = [renderer_guis EXCEPT !["hfss_gui"] = Shown]
    /\ log' = <<"hfss_gui.show">>
    /\ called' = [op |-> "show_renderer_hfss", args |-> <<>>]
    /\ UNCHANGED <<sweepIdleVars, cpwVars, raised, gui_design, gui_enabled,
                   plot_win_design, variables_design>>

\* show_renderer_q3d: a new widget takes the place of the one the main window
\* referred to, and is shown.
ShowRendererQ3d ==
    /\ renderer_guis' = [renderer_guis EXCEPT !["q3d_gui"] = Shown]
    /\ log' = <<"q3d_gui.show">>
    /\ called' = [op |-> "show_renderer_q3d", args |-> <<>>]
    /\ UNCHANGED <<sweepIdleVars, cpwVars, raised, gui_design, gui_enabled,
                   plot_win_design, variables_design>>

NextGui ==
    \/ SetDesign
    \/ ShowRendererGds
    \/ ShowRendererHfss
    \/ ShowRendererQ3d

SpecGui == InitGui /\ [][NextGui]_vars

----------------------------------------------------------------------------
(* C15: after set_design(d) the gui holds d, the design-dependent widgets  *)
(* are enabled, the plot window, the variables window and every renderer   *)
(* widget the main window refers to have been given d, and refresh() was   *)
(* the last step; a gui constructed without a design has those widgets     *)
(* disabled until set_design is called.                                    *)
C15_SetDesign ==
    /\ called.op = "set_design" =>
            LET d == called.args[1][2].v IN
            /\ gui_design = d
            /\ \A w \in DesignWidgets : gui_enabled[w]
            /\ plot_win_design = d
            /\ variables_design = d
            /\ \A g \in RendererGuis :
                    renderer_guis[g].open => renderer_guis[g].design = d
            /\ log[Len(log)] = "refresh"
            /\ \A i \in 1..(Len(log) - 1) : log[i] # "refresh"
    /\ gui_design = NoGuiDesign => \A w \in DesignWidgets : ~gui_enabled[w]

C15_Witness ==
    /\ called = SetDesignArgs("d2")
    /\ renderer_guis["q3d_gui"] = [open |-> TRUE, design |-> "d2"]
    /\ renderer_guis["gds_gui"] = [open |-> TRUE, design |-> "d2"]
    /\ ~renderer_guis["hfss_gui"].open
    /\ Len(log) = 7

----------------------------------------------------------------------------
(* Metal_cpw_connect(design, name, options, overwrite, make).              *)

Placeholder == "[INPUT NAME HERE]"

\* Names a connector can be registered under in design.connectors, and that
\* the options connector1 and connector2 are tried with.
ConnectorNames == {"", Placeholder, "Q1_bus", "Q2_bus"}

\* `a is b` for two str objects: False when the strings differ; when they
\* are equal, whether they are one object is up to the interpreter.
Is(a, b, shared) == a = b /\ shared

\* check_connector_name: the exception it raises, "none" when it returns.
check_connector_name(c1, c2, regs, shared) ==
    IF Is(c1, "", shared[1]) \/ Is(c1, Placeholder, shared[2]) THEN "Exception"
    ELSE IF Is(c1, "", shared[1]) \/ Is(c2, Placeholder, shared[3])
    THEN "Exception"
    ELSE IF c1 \notin regs THEN "AssertionError"
    ELSE IF c2 \notin regs THEN "AssertionError"
    ELSE "none"

InitCpw ==
    /\ SweepIdle
    /\ GuiIdle
    /\ raised = "none"
    /\ log = <<>>
    /\ called = NoCall
    /\ connectors \in SUBSET ConnectorNames
    /\ cpw_made = FALSE

\* Metal_cpw_connect.__init__
ConstructCpw ==
    /\ \E c1 \in ConnectorNames, c2 \in ConnectorNames, make \in BOOLEAN,
          shared \in [1..3 -> BOOLEAN] :
        LET r == check_connector_name(c1, c2, connectors, shared) IN
        /\ called' = [op |-> "Metal_cpw_connect",
                      args |-> << <<"connector1", PyStr(c1)>>,
                                  <<"connector2", PyStr(c2)>>,
                                  <<"make", PyBool(IF make THEN "True"
                                                   ELSE "False")>> >>]
        /\ raised' = r
        /\ cpw_made' = (r = "none" /\ make)
        /\ log' = <<"Metal_Object.__init__", "check_connector_name">>
                  \o (IF r = "none" /\ make THEN <<"make">> ELSE <<>>)
    /\ UNCHANGED <<sweepIdleVars, guiVars, connectors>>

NextCpw == ConstructCpw

SpecCpw == InitCpw /\ [][NextCpw]_vars

----------------------------------------------------------------------------
(* C16, as claimed: constructing a Metal_cpw_connect raises an error       *)
(* whenever connector1 or connector2 is the empty string, is the           *)
(* placeholder '[INPUT NAME HERE]', or is not the name of a connector      *)
(* registered in the design; make() runs only after this check has passed  *)
(* and only when make=True.                                                *)
BadConnector(c) == c = "" \/ c = Placeholder \/ c \notin connectors

C16_Claimed ==
    called.op = "Metal_cpw_connect" =>
        LET c1 == called.args[1][2].v
            c2 == called.args[2][2].v
            make == called.args[3][2] = PyBool("True")
        IN /\ (BadConnector(c1) \/ BadConnector(c2)) => raised # "none"
           /\ cpw_made => /\ raised = "none"
                          /\ make
                          /\ log = <<"Metal_Object.__init__",
                                     "check_connector_name", "make">>

====
